---------------------------- MODULE Spec2Model ----------------------------
(***************************************************************************)
(* Tischkicker ranked service (src/main.py): player registration, match    *)
(* submission inside one PostgreSQL transaction per request, rank tiers,   *)
(* and the rating update that the stored function process_match applies.   *)
(*                                                                         *)
(* The store is PostgreSQL at its default isolation level (READ COMMITTED):*)
(* a statement sees the rows committed before it started plus the writes   *)
(* of its own transaction; an UPDATE takes a row lock that is held until   *)
(* commit or rollback.  process_match, the ranks table and the table       *)
(* constraints live in the database, not in src/; they are modelled from   *)
(* spec.md sections 3, 4 and 6.                                            *)
(***************************************************************************)
EXTENDS Integers, Sequences, FiniteSets, Bags, TLC

(***************************************************************************)
(* Bounds of the model.                                                    *)
(***************************************************************************)
MaxPlayers == 3      \* player ids are 1..MaxPlayers
MaxMatches == 2      \* match ids are 1..MaxMatches
MaxTeam == 2         \* longest roster list of a request
MaxNameLen == 3      \* longest player name of a request
MaxGoals == 4        \* scores of the rating-update inputs are 0..MaxGoals
MaxDiff == 1250      \* rating differences of the rating-update inputs

(***************************************************************************)
(* Program constants.                                                      *)
(***************************************************************************)
InitialElo == 1000   \* INSERT INTO players (name, elo, ...) VALUES (%s, 1000, 0, 0)
K == 80
MinRating == 0
MaxRating == 6000
Scale == 10000000    \* fixed-point unit of the real-valued quantities below

Conns == {1, 2}                  \* concurrently served requests
PlayerIds == 1..MaxPlayers
MatchIds == 1..MaxMatches
Chars == {" ", "a"}
ScorePairs == {<<0, 0>>, <<1, 0>>, <<0, 2>>}   \* scores of submitted matches
Modes == {"solo", "duo"}         \* values of the request's mode field

Min(a, b) == IF a < b THEN a ELSE b
Max(a, b) == IF a > b THEN a ELSE b
Abs(a) == IF a < 0 THEN -a ELSE a
Range(s) == {s[i] : i \in DOMAIN s}

(***************************************************************************)
(* Rank Table (the rows of the ranks table; spec.md 4.1 default table).    *)
(* A rank id is the row's position; 0 stands for a NULL rank_id.           *)
(***************************************************************************)
RankTable ==
  << [name |-> "Bronze",   min_elo |-> 0],
     [name |-> "Silber",   min_elo |-> 1000],
     [name |-> "Gold",     min_elo |-> 1500],
     [name |-> "Diamant",  min_elo |-> 2200],
     [name |-> "Elite",    min_elo |-> 3800],
     [name |-> "Champion", min_elo |-> 5500] >>

\* SELECT MAX(min_elo) FROM ranks WHERE min_elo <= p.elo, joined back to the
\* row that holds it: the rank ids r with r.min_elo equal to that maximum.
RanksFor(elo) ==
  {r \in DOMAIN RankTable :
     /\ RankTable[r].min_elo <= elo
     /\ \A q \in DOMAIN RankTable :
          RankTable[q].min_elo <= elo => RankTable[q].min_elo <= RankTable[r].min_elo}

\* UPDATE players p SET rank_id = r.id FROM ranks r WHERE ... : the row keeps
\* its rank_id when no rank qualifies.
SetRank(row) ==
  IF RanksFor(row.elo) = {} THEN row
  ELSE [row EXCEPT !.rank_id = CHOOSE r \in RanksFor(row.elo) : TRUE]

(***************************************************************************)
(* Rating Update Engine (spec.md 4.2).  Real numbers are carried in fixed  *)
(* point: ExpectedTable[d+1] = floor(Scale / (1 + 10^(d/400))) for a       *)
(* rating difference d in 0..1199.  For d >= 1200 the expected score is    *)
(* below 1/1001, which moves K * goalFactor * E by less than 0.2 and so    *)
(* never changes the rounded result; it is taken as 0.                     *)
(***************************************************************************)
ExpectedTable ==
  <<
    5000000, 4985608, 4971218, 4956827, 4942437, 4928049, 4913661, 4899275, 4884891, 4870508,
    4856128, 4841750, 4827374, 4813002, 4798632, 4784266, 4769904, 4755545, 4741190, 4726840,
    4712494, 4698153, 4683817, 4669486, 4655160, 4640840, 4626526, 4612219, 4597917, 4583622,
    4569335, 4555054, 4540780, 4526514, 4512256, 4498006, 4483764, 4469531, 4455306, 4441090,
    4426883, 4412686, 4398498, 4384320, 4370152, 4355995, 4341847, 4327711, 4313586, 4299471,
    4285368, 4271277, 4257197, 4243130, 4229075, 4215032, 4201002, 4186985, 4172981, 4158990,
    4145013, 4131049, 4117100, 4103164, 4089244, 4075337, 4061446, 4047569, 4033708, 4019862,
    4006032, 3992217, 3978419, 3964636, 3950870, 3937121, 3923389, 3909673, 3895975, 3882294,
    3868631, 3854986, 3841358, 3827749, 3814158, 3800586, 3787032, 3773498, 3759982, 3746486,
    3733009, 3719551, 3706114, 3692697, 3679299, 3665922, 3652566, 3639231, 3625916, 3612622,
    3599350, 3586098, 3572869, 3559661, 3546475, 3533311, 3520169, 3507050, 3493953, 3480879,
    3467828, 3454800, 3441794, 3428813, 3415854, 3402920, 3390009, 3377122, 3364259, 3351420,
    3338605, 3325815, 3313050, 3300309, 3287594, 3274903, 3262238, 3249597, 3236983, 3224394,
    3211830, 3199293, 3186781, 3174296, 3161836, 3149403, 3136997, 3124617, 3112264, 3099937,
    3087638, 3075366, 3063120, 3050902, 3038712, 3026549, 3014413, 3002305, 2990226, 2978173,
    2966149, 2954154, 2942186, 2930247, 2918336, 2906453, 2894599, 2882774, 2870978, 2859210,
    2847472, 2835763, 2824082, 2812431, 2800809, 2789217, 2777654, 2766121, 2754617, 2743143,
    2731699, 2720284, 2708900, 2697545, 2686221, 2674927, 2663662, 2652429, 2641225, 2630052,
    2618909, 2607797, 2596715, 2585664, 2574644, 2563654, 2552695, 2541767, 2530870, 2520004,
    2509169, 2498365, 2487592, 2476850, 2466139, 2455459, 2444811, 2434194, 2423608, 2413053,
    2402530, 2392039, 2381578, 2371150, 2360753, 2350387, 2340053, 2329750, 2319479, 2309240,
    2299033, 2288857, 2278713, 2268600, 2258520, 2248471, 2238454, 2228468, 2218515, 2208593,
    2198703, 2188845, 2179019, 2169225, 2159463, 2149732, 2140033, 2130367, 2120732, 2111129,
    2101558, 2092018, 2082511, 2073036, 2063592, 2054180, 2044800, 2035453, 2026136, 2016852,
    2007600, 1998379, 1989190, 1980033, 1970908, 1961814, 1952753, 1943723, 1934724, 1925758,
    1916823, 1907920, 1899048, 1890208, 1881400, 1872623, 1863877, 1855164, 1846481, 1837831,
    1829211, 1820623, 1812067, 1803541, 1795047, 1786585, 1778153, 1769753, 1761384, 1753046,
    1744740, 1736464, 1728219, 1720006, 1711823, 1703671, 1695550, 1687460, 1679401, 1671373,
    1663375, 1655408, 1647471, 1639565, 1631690, 1623845, 1616030, 1608246, 1600493, 1592769,
    1585076, 1577413, 1569780, 1562177, 1554604, 1547061, 1539548, 1532065, 1524612, 1517189,
    1509795, 1502431, 1495096, 1487792, 1480516, 1473270, 1466053, 1458866, 1451708, 1444579,
    1437479, 1430408, 1423366, 1416353, 1409369, 1402414, 1395488, 1388590, 1381721, 1374880,
    1368068, 1361285, 1354529, 1347802, 1341104, 1334433, 1327791, 1321176, 1314590, 1308031,
    1301500, 1294997, 1288522, 1282074, 1275653, 1269261, 1262895, 1256557, 1250246, 1243963,
    1237706, 1231477, 1225274, 1219099, 1212950, 1206828, 1200733, 1194664, 1188622, 1182606,
    1176617, 1170653, 1164717, 1158806, 1152921, 1147063, 1141230, 1135423, 1129642, 1123887,
    1118157, 1112453, 1106774, 1101121, 1095493, 1089890, 1084313, 1078760, 1073233, 1067730,
    1062253, 1056800, 1051372, 1045968, 1040589, 1035234, 1029904, 1024598, 1019317, 1014059,
    1008826, 1003616, 998431, 993269, 988131, 983017, 977926, 972859, 967815, 962795,
    957798, 952824, 947873, 942946, 938041, 933159, 928300, 923464, 918650, 913859,
    909090, 904344, 899620, 894919, 890239, 885582, 880946, 876333, 871741, 867172,
    862623, 858097, 853592, 849108, 844646, 840205, 835786, 831387, 827010, 822653,
    818318, 814003, 809709, 805436, 801183, 796951, 792739, 788547, 784376, 780225,
    776094, 771984, 767893, 763822, 759771, 755739, 751727, 747735, 743762, 739809,
    735875, 731960, 728065, 724188, 720331, 716493, 712673, 708872, 705090, 701327,
    697582, 693856, 690148, 686459, 682788, 679135, 675500, 671883, 668284, 664703,
    661140, 657595, 654067, 650557, 647065, 643589, 640132, 636691, 633268, 629862,
    626473, 623102, 619747, 616409, 613087, 609783, 606495, 603224, 599969, 596731,
    593509, 590303, 587114, 583941, 580784, 577643, 574517, 571408, 568315, 565237,
    562175, 559129, 556098, 553082, 550082, 547098, 544128, 541174, 538235, 535311,
    532402, 529508, 526628, 523764, 520914, 518079, 515258, 512452, 509661, 506884,
    504121, 501372, 498638, 495918, 493212, 490520, 487841, 485177, 482527, 479890,
    477267, 474657, 472061, 469479, 466910, 464354, 461812, 459283, 456767, 454265,
    451775, 449298, 446835, 444384, 441946, 439521, 437108, 434708, 432321, 429946,
    427584, 425234, 422896, 420571, 418258, 415957, 413668, 411391, 409126, 406874,
    404633, 402404, 400186, 397981, 395787, 393604, 391434, 389274, 387126, 384990,
    382865, 380751, 378648, 376556, 374476, 372406, 370348, 368301, 366264, 364238,
    362223, 360219, 358225, 356242, 354270, 352308, 350357, 348416, 346485, 344565,
    342655, 340755, 338866, 336986, 335117, 333257, 331408, 329568, 327738, 325919,
    324108, 322308, 320517, 318736, 316965, 315203, 313450, 311707, 309973, 308249,
    306534, 304828, 303131, 301444, 299765, 298096, 296436, 294784, 293142, 291508,
    289884, 288268, 286660, 285062, 283472, 281891, 280318, 278754, 277198, 275651,
    274112, 272582, 271060, 269546, 268040, 266542, 265053, 263572, 262098, 260633,
    259176, 257727, 256285, 254852, 253426, 252008, 250598, 249195, 247800, 246413,
    245033, 243661, 242296, 240939, 239589, 238247, 236912, 235584, 234263, 232950,
    231644, 230345, 229053, 227768, 226490, 225220, 223956, 222699, 221449, 220206,
    218969, 217740, 216517, 215301, 214092, 212889, 211693, 210503, 209321, 208144,
    206974, 205810, 204653, 203502, 202358, 201220, 200088, 198962, 197843, 196730,
    195623, 194522, 193427, 192338, 191255, 190178, 189107, 188042, 186983, 185929,
    184882, 183840, 182804, 181774, 180750, 179731, 178717, 177710, 176708, 175711,
    174720, 173735, 172755, 171780, 170811, 169847, 168889, 167936, 166988, 166045,
    165108, 164176, 163249, 162327, 161410, 160499, 159592, 158691, 157794, 156903,
    156016, 155134, 154258, 153386, 152519, 151657, 150799, 149947, 149099, 148256,
    147417, 146584, 145754, 144930, 144110, 143295, 142484, 141678, 140876, 140079,
    139286, 138497, 137713, 136934, 136158, 135387, 134621, 133858, 133100, 132346,
    131597, 130851, 130110, 129373, 128640, 127911, 127186, 126465, 125748, 125036,
    124327, 123622, 122921, 122224, 121531, 120842, 120157, 119475, 118798, 118124,
    117454, 116787, 116125, 115466, 114811, 114159, 113512, 112867, 112227, 111590,
    110956, 110327, 109700, 109077, 108458, 107842, 107230, 106621, 106015, 105413,
    104815, 104219, 103627, 103039, 102453, 101871, 101292, 100717, 100144, 99575,
    99009, 98447, 97887, 97331, 96777, 96227, 95680, 95136, 94595, 94058,
    93523, 92991, 92462, 91936, 91413, 90893, 90376, 89862, 89351, 88843,
    88337, 87835, 87335, 86838, 86344, 85852, 85364, 84878, 84395, 83915,
    83437, 82962, 82490, 82020, 81553, 81089, 80627, 80168, 79712, 79258,
    78806, 78358, 77911, 77468, 77026, 76588, 76151, 75717, 75286, 74857,
    74431, 74007, 73585, 73166, 72749, 72334, 71922, 71512, 71105, 70699,
    70296, 69896, 69497, 69101, 68707, 68316, 67926, 67539, 67154, 66771,
    66390, 66012, 65635, 65261, 64889, 64519, 64151, 63785, 63421, 63059,
    62700, 62342, 61986, 61633, 61281, 60932, 60584, 60238, 59895, 59553,
    59213, 58875, 58539, 58205, 57873, 57543, 57214, 56888, 56563, 56240,
    55919, 55600, 55283, 54967, 54653, 54341, 54031, 53723, 53416, 53111,
    52808, 52506, 52206, 51908, 51612, 51317, 51024, 50733, 50443, 50155,
    49868, 49583, 49300, 49019, 48739, 48460, 48183, 47908, 47635, 47362,
    47092, 46823, 46555, 46289, 46025, 45762, 45500, 45240, 44982, 44725,
    44469, 44215, 43962, 43711, 43461, 43213, 42966, 42720, 42476, 42233,
    41992, 41752, 41513, 41276, 41040, 40806, 40572, 40340, 40110, 39880,
    39652, 39426, 39200, 38976, 38753, 38532, 38311, 38092, 37874, 37658,
    37443, 37228, 37015, 36804, 36593, 36384, 36176, 35969, 35763, 35559,
    35355, 35153, 34952, 34752, 34553, 34356, 34159, 33964, 33769, 33576,
    33384, 33193, 33003, 32815, 32627, 32440, 32254, 32070, 31886, 31704,
    31523, 31342, 31163, 30985, 30807, 30631, 30456, 30281, 30108, 29936,
    29764, 29594, 29425, 29256, 29089, 28922, 28757, 28592, 28429, 28266,
    28104, 27943, 27783, 27624, 27466, 27309, 27153, 26997, 26843, 26689,
    26536, 26384, 26233, 26083, 25934, 25785, 25638, 25491, 25345, 25200,
    25055, 24912, 24769, 24627, 24486, 24346, 24207, 24068, 23930, 23793,
    23657, 23522, 23387, 23253, 23120, 22987, 22856, 22725, 22595, 22465,
    22337, 22209, 22082, 21955, 21829, 21704, 21580, 21456, 21334, 21211,
    21090, 20969, 20849, 20729, 20611, 20493, 20375, 20259, 20143, 20027,
    19912, 19798, 19685, 19572, 19460, 19349, 19238, 19127, 19018, 18909,
    18801, 18693, 18586, 18479, 18373, 18268, 18163, 18059, 17956, 17853,
    17751, 17649, 17548, 17447, 17347, 17248, 17149, 17051, 16953, 16856,
    16759, 16663, 16568, 16473, 16379, 16285, 16191, 16099, 16006, 15915,
    15823, 15733, 15643, 15553, 15464, 15375, 15287, 15199, 15112, 15026,
    14940, 14854, 14769, 14684, 14600, 14516, 14433, 14350, 14268, 14186,
    14105, 14024, 13944, 13864, 13784, 13705, 13627, 13549, 13471, 13394,
    13317, 13241, 13165, 13089, 13014, 12940, 12865, 12792, 12718, 12645,
    12573, 12501, 12429, 12358, 12287, 12217, 12147, 12077, 12008, 11939,
    11870, 11802, 11735, 11667, 11601, 11534, 11468, 11402, 11337, 11272,
    11207, 11143, 11079, 11015, 10952, 10889, 10827, 10765, 10703, 10642,
    10581, 10520, 10460, 10400, 10340, 10281, 10222, 10163, 10105, 10047
  >>

\* E_A = 1 / (1 + 10^((ratingB - ratingA)/400)), times Scale.
Expected(ratingA, ratingB) ==
  LET d == ratingB - ratingA
      Tab(x) == IF x < Len(ExpectedTable) THEN ExpectedTable[x + 1] ELSE 0
  IN  IF d >= 0 THEN Tab(d) ELSE Scale - Tab(-d)

\* Actual outcome for A, doubled: 1 -> 2, 0.5 -> 1, 0 -> 0.
Actual2(scoreA, scoreB) ==
  IF scoreA > scoreB THEN 2 ELSE IF scoreA < scoreB THEN 0 ELSE 1

\* goalFactor = min(2.5, 1 + 0.4 * |scoreA - scoreB|), in tenths.
GoalFactor10(scoreA, scoreB) == Min(25, 10 + 4 * Abs(scoreA - scoreB))

\* delta = K * (actual_A - E_A) * goalFactor, times Scale.
Delta(ratingA, ratingB, scoreA, scoreB) ==
  (K \div 10) * GoalFactor10(scoreA, scoreB)
     * (Actual2(scoreA, scoreB) * (Scale \div 2) - Expected(ratingA, ratingB))

\* A mutant of RoundSum: truncation towards minus infinity (math.floor, or an
\* integer cast of a positive value) in place of round.
RoundSumFloor(rating, n) == rating + (n \div Scale)

\* round(rating + n / Scale): nearest integer, a tie going to the even one.
RoundSum(rating, n) ==
  LET base == rating + (n \div Scale)
      rem == n % Scale
  IN  IF 2 * rem < Scale THEN base
      ELSE IF 2 * rem > Scale THEN base + 1
      ELSE IF base % 2 = 0 THEN base ELSE base + 1

\* A mutant of Clamp: the upper bound is not enforced.
ClampLowOnly(x) == Max(MinRating, x)

Clamp(x) == Max(MinRating, Min(MaxRating, x))

\* round(ratingA + delta) and round(ratingB - delta), before clamping.
Unclamped(ratingA, ratingB, scoreA, scoreB) ==
  LET n == Delta(ratingA, ratingB, scoreA, scoreB)
  IN  <<RoundSum(ratingA, n), RoundSum(ratingB, -n)>>

\* update(ratingA, ratingB, scoreA, scoreB) -> (newRatingA, newRatingB)
update(ratingA, ratingB, scoreA, scoreB) ==
  LET raw == Unclamped(ratingA, ratingB, scoreA, scoreB)
  IN  <<Clamp(raw[1]), Clamp(raw[2])>>

(***************************************************************************)
(* State.                                                                  *)
(*   players        committed rows of table players, by id (1..Len)        *)
(*   matches        committed rows of table matches, by id                 *)
(*   match_players  committed rows of table match_players (a bag)          *)
(*   pc             where each served request stands                       *)
(*   tx             each request's arguments, locals and uncommitted rows  *)
(*   engine         inputs and outputs of a rating update taken alone      *)
(***************************************************************************)
VARIABLES players, matches, match_players, pc, tx, engine

vars == <<players, matches, match_players, pc, tx, engine>>
db == <<players, matches, match_players>>

NoTx ==
  [team1_ids |-> <<>>, team2_ids |-> <<>>,
   score_team1 |-> 0, score_team2 |-> 0,
   mode |-> "solo", match_id |-> 0, processed |-> FALSE,
   rows |-> EmptyBag, read |-> <<>>, upd |-> <<>>]

NoEngine ==
  [pc |-> "off", ratingA |-> 0, ratingB |-> 0, scoreA |-> 0, scoreB |-> 0,
   rawA |-> 0, rawB |-> 0, newRatingA |-> 0, newRatingB |-> 0]

InFlight == {"process", "write", "rank", "commit"}
\* An error response that is being delivered (a success leaves its trace in
\* the tables and the request's slot is idle at once).
Responded == {"player_rejected", "match_rejected", "match_failed"}

\* Request inputs.
\* Names: every string over Chars whose strip() is empty or "a".
\* Rosters: the lists of distinct ids in increasing order.
Names ==
  {s \in UNION {[1..n -> Chars] : n \in 0..MaxNameLen} :
     Cardinality({i \in DOMAIN s : s[i] = "a"}) <= 1}
Rosters ==
  {s \in UNION {[1..n -> PlayerIds] : n \in 0..MaxTeam} :
     \A i \in DOMAIN s : \A j \in DOMAIN s : i < j => s[i] < s[j]}
RosterPairs == [team1_ids : Rosters, team2_ids : Rosters]
Requests ==
  {[team1_ids |-> r.team1_ids, team2_ids |-> r.team2_ids,
    score_team1 |-> s[1], score_team2 |-> s[2], mode |-> m] :
     r \in RosterPairs, s \in ScorePairs, m \in Modes}

Init ==
  /\ players = <<>>
  /\ matches = <<>>
  /\ match_players = EmptyBag
  /\ pc = [c \in Conns |-> "idle"]
  /\ tx = [c \in Conns |-> NoTx]
  /\ engine = NoEngine

(***************************************************************************)
(* add_player                                                              *)
(***************************************************************************)
RECURSIVE lstrip(_)
lstrip(s) == IF s # <<>> /\ Head(s) = " " THEN lstrip(Tail(s)) ELSE s

RECURSIVE rstrip(_)
rstrip(s) ==
  IF s # <<>> /\ s[Len(s)] = " " THEN rstrip(SubSeq(s, 1, Len(s) - 1)) ELSE s

\* A mutant of strip: only leading whitespace is removed.
strip_left_only(s) == lstrip(s)

\* str.strip()
strip(s) == rstrip(lstrip(s))

\* INSERT INTO players (name, elo, wins, losses) VALUES (%s, 1000, 0, 0)
NewPlayer(name) ==
  [name |-> strip(name), elo |-> InitialElo, wins |-> 0, losses |-> 0, rank_id |-> 0]

add_player(c, name) ==
  /\ pc[c] = "idle"
  /\ \/ /\ strip(name) = <<>>
        /\ pc' = [pc EXCEPT ![c] = "player_rejected"]
        /\ UNCHANGED players
     \/ /\ strip(name) # <<>>
        /\ Len(players) < MaxPlayers
        /\ players' = Append(players, SetRank(NewPlayer(name)))
        /\ UNCHANGED pc
  /\ UNCHANGED <<matches, match_players, tx, engine>>

(***************************************************************************)
(* add_match                                                               *)
(***************************************************************************)
\* A mutant of Valid: the overlap of the two rosters is not checked.
ValidNoOverlapCheck(req) == req.team1_ids # <<>> /\ req.team2_ids # <<>>

\* Validierung: both rosters non-empty, no id in both.
Valid(req) ==
  /\ req.team1_ids # <<>> /\ req.team2_ids # <<>>
  /\ Range(req.team1_ids) \cap Range(req.team2_ids) = {}

\* A mutant of DeriveMode: the request's mode field is stored.
ModeFromRequest(req) == req.mode

\* Match-Modus automatisch bestimmen
DeriveMode(req) ==
  IF Len(req.team1_ids) > 1 \/ Len(req.team2_ids) > 1 THEN "duo" ELSE "solo"

UsedMatchIds == DOMAIN matches \cup {tx[c].match_id : c \in Conns}
FreeMatchIds == MatchIds \ UsedMatchIds

\* The match_players rows of one roster list, one row per list entry.
RECURSIVE RosterRows(_, _, _)
RosterRows(match_id, ids, team) ==
  IF ids = <<>> THEN EmptyBag
  ELSE SetToBag({[match_id |-> match_id, player_id |-> Head(ids), team |-> team]})
         (+) RosterRows(match_id, Tail(ids), team)

PlayerExists(p) == p \in DOMAIN players

\* Validierung fails: HTTPException(400) before a connection is opened.
reject_match(c, req) ==
  /\ pc[c] = "idle"
  /\ ~Valid(req)
  /\ pc' = [pc EXCEPT ![c] = "match_rejected"]
  /\ UNCHANGED <<db, tx, engine>>

\* Validierung passes: the mode is derived, the connection opened, and inside
\* its transaction INSERT INTO matches (... processed FALSE) RETURNING id, then
\* one INSERT INTO match_players per roster entry.  An entry naming no players
\* row raises, which ends the request in the except branch.
begin_match(c, req) ==
  /\ pc[c] = "idle"
  /\ Valid(req)
  /\ FreeMatchIds # {}
  /\ LET id == CHOOSE m \in FreeMatchIds : \A n \in FreeMatchIds : m <= n
         ids == Range(req.team1_ids) \cup Range(req.team2_ids)
     IN  \/ /\ \A p \in ids : PlayerExists(p)
            /\ tx' = [tx EXCEPT ![c] =
                        [NoTx EXCEPT !.team1_ids = req.team1_ids,
                                     !.team2_ids = req.team2_ids,
                                     !.score_team1 = req.score_team1,
                                     !.score_team2 = req.score_team2,
                                     !.mode = DeriveMode(req),
                                     !.match_id = id,
                                     !.processed = FALSE,
                                     !.rows = RosterRows(id, req.team1_ids, 1)
                                                (+) RosterRows(id, req.team2_ids, 2)]]
            /\ pc' = [pc EXCEPT ![c] = "process"]
         \/ /\ \E p \in ids : ~PlayerExists(p)
            /\ tx' = [tx EXCEPT ![c] = NoTx]
            /\ pc' = [pc EXCEPT ![c] = "match_failed"]
  /\ UNCHANGED <<db, engine>>

\* SELECT player_id FROM match_players WHERE match_id = %s [AND team = ...],
\* as the transaction itself sees it.
TeamOf(t, team) ==
  {r.player_id : r \in {x \in BagToSet(t.rows) : x.match_id = t.match_id /\ x.team = team}}
Participants(t) == TeamOf(t, 1) \cup TeamOf(t, 2)

(***************************************************************************)
(* process_match(match_id), the stored function add_match calls.  It is    *)
(* not part of src/; it follows spec.md 4.2, 4.3 (steps 4 and 5) and 6:    *)
(* getPlayer reads each participant's rating, the engine is applied to     *)
(* every pairing of a team 1 player with a team 2 player, and writePlayer  *)
(* stores the new rating together with a wins/losses increment.            *)
(***************************************************************************)
RECURSIVE Sum(_, _)
Sum(f, S) ==
  IF S = {} THEN 0
  ELSE LET x == CHOOSE y \in S : TRUE IN f[x] + Sum(f, S \ {x})

\* New rating of every participant from the ratings `read`: the rating plus
\* the changes the engine gives it over its pairings, kept in range.
NewRatings(read, team1, team2, s1, s2) ==
  [p \in team1 \cup team2 |->
     IF p \in team1
     THEN Clamp(read[p]
                + Sum([q \in team2 |-> update(read[p], read[q], s1, s2)[1] - read[p]], team2))
     ELSE Clamp(read[p]
                + Sum([q \in team1 |-> update(read[q], read[p], s1, s2)[2] - read[p]], team1))]

\* A mutant of WinsDelta: a tie counts as a win for team 1.
WinsDeltaTieWins(team, s1, s2) ==
  IF (team = 1 /\ s1 >= s2) \/ (team = 2 /\ s2 > s1) THEN 1 ELSE 0

\* winsDelta / lossesDelta of a player of `team`.
WinsDelta(team, s1, s2) ==
  IF (team = 1 /\ s1 > s2) \/ (team = 2 /\ s2 > s1) THEN 1 ELSE 0
LossesDelta(team, s1, s2) ==
  IF (team = 1 /\ s1 < s2) \/ (team = 2 /\ s2 < s1) THEN 1 ELSE 0

\* Rows another transaction has written and not yet committed.
LockedByOther(c) == UNION {DOMAIN tx[o].upd : o \in Conns \ {c}}

\* getPlayer for every participant: the committed ratings.
process_read(c) ==
  /\ pc[c] = "process"
  /\ tx' = [tx EXCEPT ![c].read = [p \in Participants(tx[c]) |-> players[p].elo]]
  /\ pc' = [pc EXCEPT ![c] = "write"]
  /\ UNCHANGED <<db, engine>>

\* writePlayer for every participant: waits for the row locks, then stores
\* the rating computed from `read` and increments the tallies of the row.
process_write(c) ==
  /\ pc[c] = "write"
  /\ LET t == tx[c]
         new == NewRatings(t.read, TeamOf(t, 1), TeamOf(t, 2), t.score_team1, t.score_team2)
         team(p) == IF p \in TeamOf(t, 1) THEN 1 ELSE 2
     IN  /\ Participants(t) \cap LockedByOther(c) = {}
         /\ tx' = [tx EXCEPT ![c].upd =
                     [p \in Participants(t) |->
                        [players[p] EXCEPT
                           !.elo = new[p],
                           !.wins = @ + WinsDelta(team(p), t.score_team1, t.score_team2),
                           !.losses = @ + LossesDelta(team(p), t.score_team1, t.score_team2)]]]
  /\ pc' = [pc EXCEPT ![c] = "rank"]
  /\ UNCHANGED <<db, engine>>

(***************************************************************************)
(* add_match, after process_match.                                         *)
(***************************************************************************)
\* The players row a statement of transaction t sees.
Visible(t, p) == IF p \in DOMAIN t.upd THEN t.upd[p] ELSE players[p]

\* A mutant of RankedRows: the rank update is left out.
RankedRowsSkipped(t) == t.upd

\* Raenge aktualisieren: UPDATE players p SET rank_id = r.id FROM ranks r
\* WHERE p.id IN (SELECT player_id FROM match_players WHERE match_id = %s) ...
RankedRows(t) ==
  [p \in DOMAIN t.upd \cup Participants(t) |->
     IF p \in Participants(t) THEN SetRank(Visible(t, p)) ELSE t.upd[p]]

update_ranks(c) ==
  /\ pc[c] = "rank"
  /\ Participants(tx[c]) \cap LockedByOther(c) = {}
  /\ tx' = [tx EXCEPT ![c].upd = RankedRows(tx[c])]
  /\ pc' = [pc EXCEPT ![c] = "commit"]
  /\ UNCHANGED <<db, engine>>

\* A mutant of MarkProcessed: the match row is left unprocessed.
MarkSkipped(row) == row

\* UPDATE matches SET processed = TRUE WHERE id = %s
MarkProcessed(row) == [row EXCEPT !.processed = TRUE]

\* The matches row of transaction t, as inserted.
MatchRow(t) ==
  [mode |-> t.mode, score_team1 |-> t.score_team1, score_team2 |-> t.score_team2,
   processed |-> t.processed]

\* Match als verarbeitet markieren, then conn.commit(): the transaction's rows
\* become the committed rows and its row locks are released.
commit(c) ==
  /\ pc[c] = "commit"
  /\ LET t == tx[c]
     IN  /\ players' = [p \in DOMAIN players |-> Visible(t, p)]
         /\ matches' = [m \in DOMAIN matches \cup {t.match_id} |->
                          IF m = t.match_id THEN MarkProcessed(MatchRow(t))
                          ELSE matches[m]]
         /\ match_players' = match_players (+) t.rows
  /\ tx' = [tx EXCEPT ![c] = NoTx]
  /\ pc' = [pc EXCEPT ![c] = "idle"]
  /\ UNCHANGED engine

\* A mutant of PlayersAfterRollback: the player rows written so far stay.
PlayersWithoutRollback(c) == [p \in DOMAIN players |-> Visible(tx[c], p)]

\* The players table after conn.rollback() of transaction c.
PlayersAfterRollback(c) == players

\* except Exception: conn.rollback(); raise HTTPException(500).  Any statement
\* of the transaction may raise (a store failure, a lock timeout, a deadlock).
rollback(c) ==
  /\ pc[c] \in InFlight
  /\ players' = PlayersAfterRollback(c)
  /\ tx' = [tx EXCEPT ![c] = NoTx]
  /\ pc' = [pc EXCEPT ![c] = "match_failed"]
  /\ UNCHANGED <<matches, match_players, engine>>

\* The HTTPException reaches the caller.
respond(c) ==
  /\ pc[c] \in Responded
  /\ pc' = [pc EXCEPT ![c] = "idle"]
  /\ UNCHANGED <<db, tx, engine>>

Next ==
  \E c \in Conns :
    \/ \E name \in Names : add_player(c, name)
    \/ \E req \in RosterPairs : reject_match(c, req)
    \/ \E req \in Requests : begin_match(c, req)
    \/ process_read(c)
    \/ process_write(c)
    \/ update_ranks(c)
    \/ commit(c)
    \/ rollback(c)
    \/ respond(c)

Spec == Init /\ [][Next]_vars

(***************************************************************************)
(* The rating update taken alone, over a grid of inputs.                   *)
(***************************************************************************)
RatingAnchors == {MinRating, 3000, MaxRating}
Goals == 0..MaxGoals
RatingPairs ==
  {r \in RatingAnchors \X (MinRating..MaxRating) :
     r[2] \in {MinRating, MaxRating} \/ Abs(r[2] - r[1]) <= MaxDiff}

InitUpdate ==
  /\ players = <<>>
  /\ matches = <<>>
  /\ match_players = EmptyBag
  /\ pc = [c \in Conns |-> "idle"]
  /\ tx = [c \in Conns |-> NoTx]
  /\ engine \in {[NoEngine EXCEPT !.pc = "in", !.ratingA = r[1], !.ratingB = r[2],
                                  !.scoreA = sa, !.scoreB = sb] :
                   r \in RatingPairs, sa \in Goals, sb \in Goals}

run_update ==
  /\ engine.pc = "in"
  /\ LET e == engine
         raw == Unclamped(e.ratingA, e.ratingB, e.scoreA, e.scoreB)
         new == update(e.ratingA, e.ratingB, e.scoreA, e.scoreB)
     IN  engine' = [e EXCEPT !.pc = "out", !.rawA = raw[1], !.rawB = raw[2],
                             !.newRatingA = new[1], !.newRatingB = new[2]]
  /\ UNCHANGED <<db, pc, tx>>

NextUpdate == run_update

SpecUpdate == InitUpdate /\ [][NextUpdate]_vars

(***************************************************************************)
(* Properties.                                                             *)
(***************************************************************************)
\* Committed roster of match m.
RowsOf(m, team) == {x \in BagToSet(match_players) : x.match_id = m /\ x.team = team}
RosterOf(m, team) == {x.player_id : x \in RowsOf(m, team)}
RosterSize(m, team) ==
  Sum([x \in RowsOf(m, team) |-> CopiesIn(x, match_players)], RowsOf(m, team))

\* The tier the Rank Table gives a rating: greatest min_elo not above it.
IsTierOf(r, elo) ==
  /\ r \in DOMAIN RankTable
  /\ RankTable[r].min_elo <= elo
  /\ \A q \in DOMAIN RankTable : RankTable[q].min_elo <= elo
                                    => RankTable[q].min_elo <= RankTable[r].min_elo

\* C1: when a match submission fails after its transaction began (a roster
\* entry without a player row, or any later statement raising), the committed
\* players, matches and rosters are what they were, nothing of the
\* transaction remains, and the caller gets the error response.
C1_AllOrNothing ==
  [][\A c \in Conns :
       (pc[c] # "match_failed" /\ pc'[c] = "match_failed")
         => /\ pc[c] \in InFlight \cup {"idle"}
            /\ players' = players
            /\ matches' = matches
            /\ match_players' = match_players
            /\ tx'[c] = NoTx]_vars

\* A submission has failed while every registered player still holds the
\* rating, tallies and tier of registration.
C1_Witness ==
  /\ \E c \in Conns : pc[c] = "match_failed"
  /\ Len(players) = MaxPlayers
  /\ matches = <<>>
  /\ \A p \in DOMAIN players :
       players[p].elo = InitialElo /\ players[p].wins = 0 /\ players[p].losses = 0

\* C2: in every committed state each player's rank is the Rank Table tier of
\* the player's rating.
C2_TierMatchesRating ==
  \A p \in DOMAIN players : IsTierOf(players[p].rank_id, players[p].elo)

\* A player whose rating fell below the Silber threshold is committed as Bronze
\* beside one who stayed above it.
C2_Witness ==
  \E p \in DOMAIN players, q \in DOMAIN players :
    /\ players[p].elo < InitialElo /\ RankTable[players[p].rank_id].name = "Bronze"
    /\ players[q].elo > InitialElo /\ RankTable[players[q].rank_id].name = "Silber"

\* The players table after processing committed match m alone on table ps.
ApplyMatch(ps, m) ==
  LET t1 == RosterOf(m, 1)
      t2 == RosterOf(m, 2)
      s1 == matches[m].score_team1
      s2 == matches[m].score_team2
      new == NewRatings([p \in t1 \cup t2 |-> ps[p].elo], t1, t2, s1, s2)
  IN  [p \in DOMAIN ps |->
         IF p \notin t1 \cup t2 THEN ps[p]
         ELSE LET team == IF p \in t1 THEN 1 ELSE 2
              IN  SetRank([ps[p] EXCEPT !.elo = new[p],
                                        !.wins = @ + WinsDelta(team, s1, s2),
                                        !.losses = @ + LossesDelta(team, s1, s2)])]

\* The players tables that processing the matches of S one after the other,
\* in any order, can produce from ps.
RECURSIVE SerialResults(_, _)
SerialResults(S, ps) ==
  IF S = {} THEN {ps}
  ELSE UNION {SerialResults(S \ {m}, ApplyMatch(ps, m)) : m \in S}

\* Every player as registered.
Registered ==
  [p \in DOMAIN players |->
     SetRank([name |-> players[p].name, elo |-> InitialElo, wins |-> 0,
              losses |-> 0, rank_id |-> 0])]

InvalidRosters(r) ==
  \/ Len(r.team1_ids) = 0
  \/ Len(r.team2_ids) = 0
  \/ \E i \in DOMAIN r.team1_ids : \E j \in DOMAIN r.team2_ids :
       r.team1_ids[i] = r.team2_ids[j]
InvalidRequests == {r \in Requests : InvalidRosters(r)}

\* C4: a submission with an empty roster or with a player on both teams is
\* answered by the validation error and nothing else: a rejection writes no
\* row, no transaction is ever begun for such a submission, and none ends in
\* the failure response.
C4_InvalidRejected ==
  [][\A c \in Conns :
       pc[c] = "idle" =>
         /\ pc'[c] = "match_rejected"
              => players' = players /\ matches' = matches
                 /\ match_players' = match_players /\ tx' = tx
         /\ pc'[c] = "process" => ~InvalidRosters(tx'[c])
         /\ pc'[c] = "match_failed"
              => \A r \in InvalidRequests : ~begin_match(c, r)]_vars

\* A submission has been rejected while players are registered.
C4_Witness ==
  \E c \in Conns : pc[c] = "match_rejected" /\ Len(players) = MaxPlayers

\* C5: a match row is unprocessed inside its transaction; it becomes visible
\* only processed, in the step that also commits the rating, tally and tier
\* of every participant, and a visible row never changes again.
C5_ProcessedOnceWithUpdates ==
  /\ [](/\ \A m \in DOMAIN matches : matches[m].processed
        /\ \A c \in Conns : ~tx[c].processed)
  /\ [][\A m \in MatchIds :
          /\ m \in DOMAIN matches => m \in DOMAIN matches' /\ matches'[m] = matches[m]
          /\ (m \notin DOMAIN matches /\ m \in DOMAIN matches')
               => \E c \in Conns :
                    /\ pc[c] = "commit" /\ tx[c].match_id = m
                    /\ Participants(tx[c]) # {}
                    /\ \A p \in Participants(tx[c]) :
                         /\ p \in DOMAIN tx[c].upd
                         /\ players'[p] = tx[c].upd[p]
                         /\ IsTierOf(players'[p].rank_id, players'[p].elo)]_vars

\* A processed match is visible and its winner's tally is committed.
C5_Witness ==
  \E m \in DOMAIN matches :
    /\ matches[m].processed
    /\ \E p \in RosterOf(m, 1) \cup RosterOf(m, 2) : players[p].wins = 1

C7_ZeroSum ==
  (/\ engine.pc = "out"
   /\ engine.rawA \in MinRating..MaxRating
   /\ engine.rawB \in MinRating..MaxRating)
    => engine.newRatingA - engine.ratingA = -(engine.newRatingB - engine.ratingB)

\* An unclamped update between unequal ratings that moved both ratings.
C7_Witness ==
  /\ engine.pc = "out"
  /\ engine.rawA \in MinRating..MaxRating /\ engine.rawB \in MinRating..MaxRating
  /\ engine.ratingA # engine.ratingB
  /\ engine.newRatingA > engine.ratingA /\ engine.newRatingB < engine.ratingB

Blank(name) == \A i \in DOMAIN name : name[i] = " "
\* The name without its leading and trailing blanks.
Trimmed(name) ==
  LET ix == {i \in DOMAIN name : name[i] # " "}
      lo == CHOOSE i \in ix : \A j \in ix : i <= j
      hi == CHOOSE i \in ix : \A j \in ix : i >= j
  IN  SubSeq(name, lo, hi)

\* C8: registering an empty or all-blank name is rejected and changes nothing;
\* registering any other name adds exactly one player, with the trimmed name,
\* rating 1000, no wins, no losses and tier Silber, and changes no other row.
C8_Registration ==
  [][\A c \in Conns :
       pc[c] = "idle" =>
         /\ pc'[c] = "player_rejected"
              => players' = players /\ matches' = matches
                 /\ match_players' = match_players /\ tx' = tx
         /\ (pc'[c] = "player_rejected" \/ Len(players') # Len(players))
              => \A name \in Names :
                   add_player(c, name) =>
                     IF Blank(name)
                     THEN pc'[c] = "player_rejected" /\ players' = players
                     ELSE /\ pc'[c] = "idle"
                          /\ Len(players') = Len(players) + 1
                          /\ \A p \in DOMAIN players : players'[p] = players[p]
                          /\ LET row == players'[Len(players')]
                             IN  /\ row.name = Trimmed(name)
                                 /\ row.elo = 1000
                                 /\ row.wins = 0 /\ row.losses = 0
                                 /\ row.rank_id \in DOMAIN RankTable
                                 /\ RankTable[row.rank_id].name = "Silber"
                          /\ matches' = matches
                          /\ match_players' = match_players
                          /\ tx' = tx]_vars

\* A blank name has been rejected after a player was registered, whose row is
\* as registered.
C8_Witness ==
  /\ \E c \in Conns : pc[c] = "player_rejected"
  /\ Len(players) >= 1
  /\ players[1] = [name |-> <<"a">>, elo |-> 1000, wins |-> 0, losses |-> 0, rank_id |-> 2]

\* Matches whose team `team` has p and whose score for that team is higher
\* (won) or lower (lost) than the other team's.
Won(p) ==
  {m \in DOMAIN matches :
     \/ p \in RosterOf(m, 1) /\ matches[m].score_team1 > matches[m].score_team2
     \/ p \in RosterOf(m, 2) /\ matches[m].score_team2 > matches[m].score_team1}
Lost(p) ==
  {m \in DOMAIN matches :
     \/ p \in RosterOf(m, 1) /\ matches[m].score_team1 < matches[m].score_team2
     \/ p \in RosterOf(m, 2) /\ matches[m].score_team2 < matches[m].score_team1}

\* C9: a player's wins are the processed matches the player's side won, the
\* losses those it lost, a tie counting for neither; and the step that commits
\* a match adds exactly that to each participant's tallies.
C9_Tallies ==
  /\ [](\A p \in DOMAIN players :
          /\ players[p].wins = Cardinality(Won(p))
          /\ players[p].losses = Cardinality(Lost(p)))
  /\ [][\A c \in Conns :
          (pc[c] = "commit" /\ pc'[c] = "idle") =>
            LET t == tx[c]
                s1 == t.score_team1
                s2 == t.score_team2
            IN  \A p \in DOMAIN players :
                  LET side == IF p \in Range(t.team1_ids) THEN 1
                              ELSE IF p \in Range(t.team2_ids) THEN 2 ELSE 0
                      won == (side = 1 /\ s1 > s2) \/ (side = 2 /\ s2 > s1)
                      lost == (side = 1 /\ s1 < s2) \/ (side = 2 /\ s2 < s1)
                  IN  /\ players'[p].wins = players[p].wins + (IF won THEN 1 ELSE 0)
                      /\ players'[p].losses = players[p].losses + (IF lost THEN 1 ELSE 0)]_vars

\* A player who took part in a tie and in a match the player's side won holds
\* one win and no loss.
C9_Witness ==
  \E p \in DOMAIN players, m \in DOMAIN matches, n \in DOMAIN matches :
    /\ p \in RosterOf(m, 1) \cup RosterOf(m, 2)
    /\ matches[m].score_team1 = matches[m].score_team2
    /\ n \in Won(p)
    /\ players[p].wins = 1 /\ players[p].losses = 0

\* C10: the stored mode is solo exactly when both rosters have one entry and
\* duo otherwise, and a submission is handled the same whatever its mode field.
C10_ModeDerived ==
  /\ [](/\ \A m \in DOMAIN matches :
             matches[m].mode =
               IF RosterSize(m, 1) = 1 /\ RosterSize(m, 2) = 1 THEN "solo" ELSE "duo"
        /\ \A c \in Conns :
             pc[c] \in InFlight =>
               tx[c].mode =
                 IF Len(tx[c].team1_ids) = 1 /\ Len(tx[c].team2_ids) = 1
                 THEN "solo" ELSE "duo")
  /\ [][\A c \in Conns :
          (pc[c] = "idle" /\ pc'[c] = "process") =>
            \A m \in Modes :
              begin_match(c, [team1_ids |-> tx'[c].team1_ids,
                              team2_ids |-> tx'[c].team2_ids,
                              score_team1 |-> tx'[c].score_team1,
                              score_team2 |-> tx'[c].score_team2,
                              mode |-> m])]_vars

\* A solo match and a duo match are both committed.
C10_Witness ==
  /\ \E m \in DOMAIN matches :
       matches[m].mode = "solo" /\ RosterSize(m, 1) = 1 /\ RosterSize(m, 2) = 1
  /\ \E m \in DOMAIN matches :
       matches[m].mode = "duo" /\ RosterSize(m, 1) + RosterSize(m, 2) = 3

=============================================================================
